---- MODULE Spec2Model ----
(***************************************************************************)
(* Model of prometheus_mcp_server/server.py: the module-level              *)
(* configuration, get_prometheus_auth, make_prometheus_request and the     *)
(* call_tool dispatcher with its six tool handlers.                        *)
(*                                                                         *)
(* Text is modelled as a sequence of fragments: an f-string                *)
(* f"Prometheus API error: {error_msg}" is <<"Prometheus API error: ",     *)
(* error_msg>>, concatenation is \o, and "the message contains t" is       *)
(* "t is one of the fragments".  Python dicts are functions whose DOMAIN   *)
(* is the set of keys.  JSON values are tagged records.                    *)
(*                                                                         *)
(* call_tool is an async function whose body never awaits: requests.get    *)
(* is a blocking call, so one call_tool invocation, the upstream's answer  *)
(* included, is one atomic step.                                           *)
(***************************************************************************)
EXTENDS Integers, Sequences, FiniteSets, TLC

VARIABLES config, httpCount, lastCall

vars == <<config, httpCount, lastCall>>

-----------------------------------------------------------------------------
(* Bounds *)

\* invocations that reach the upstream in one behaviour
MaxRequests == 1

-----------------------------------------------------------------------------
(* Python helpers *)

EmptyDict == [k \in {} |-> <<>>]

\* d[k] = v on a dict
DictSet(d, k, v) == [x \in (DOMAIN d) \cup {k} |-> IF x = k THEN v ELSE d[x]]

\* dict.update(other)
DictUpdate(d, other) ==
    [x \in (DOMAIN d) \cup (DOMAIN other) |-> IF x \in DOMAIN other THEN other[x] ELSE d[x]]

\* text contains fragment t
Contains(text, t) == \E i \in 1..Len(text) : text[i] = t

\* str.rstrip('/') on a URL held as a sequence of fragments, "/" being one slash
RECURSIVE RStripSlash(_)
RStripSlash(s) ==
    IF s = <<>> THEN s
    ELSE IF s[Len(s)] = "/" THEN RStripSlash(SubSeq(s, 1, Len(s) - 1))
    ELSE s

-----------------------------------------------------------------------------
(* Configuration *)

UrlValues == { <<>>, <<"http://prom:9090", "/">> }
UsernameValues == {"", "alice"}
PasswordValues == {"", "s3cret"}
TokenValues == {"", "tok123"}
OrgIdValues == {"", "tenant1"}
TransportValues == {"stdio", "sse"}

\* MCPServerConfig.__post_init__: every field must be truthy
MCPServerConfigValid(c) ==
    /\ c.mcp_server_transport # ""
    /\ c.mcp_bind_host # ""
    /\ c.mcp_bind_port # 0

MCPServerConfig ==
    { c \in [mcp_server_transport : TransportValues,
             mcp_bind_host : {"127.0.0.1"},
             mcp_bind_port : {8080}] : MCPServerConfigValid(c) }

\* the (ORG_ID, PROMETHEUS_MCP_SERVER_TRANSPORT) pairs of the environments
\* explored: single-tenant over stdio, multi-tenant over sse
Deployments == { <<"", "stdio">>, <<"tenant1", "sse">> }

PrometheusConfig ==
    { c \in [url : UrlValues, username : UsernameValues, password : PasswordValues,
             token : TokenValues, org_id : OrgIdValues,
             mcp_server_config : MCPServerConfig] :
        <<c.org_id, c.mcp_server_config.mcp_server_transport>> \in Deployments }

\* (variant: username and password tested before the token)
get_prometheus_auth_basic_first(cfg) ==
    IF cfg.username # "" /\ cfg.password # "" THEN
        [type |-> "HTTPBasicAuth", username |-> cfg.username, password |-> cfg.password]
    ELSE IF cfg.token # "" THEN
        [type |-> "dict", dict |-> [k \in {"Authorization"} |-> <<"Bearer ", cfg.token>>]]
    ELSE
        [type |-> "None"]

\* get_prometheus_auth(): a headers dict for a token, HTTPBasicAuth for
\* username and password, None otherwise
get_prometheus_auth(cfg) ==
    IF cfg.token # "" THEN
        [type |-> "dict", dict |-> [k \in {"Authorization"} |-> <<"Bearer ", cfg.token>>]]
    ELSE IF cfg.username # "" /\ cfg.password # "" THEN
        [type |-> "HTTPBasicAuth", username |-> cfg.username, password |-> cfg.password]
    ELSE
        [type |-> "None"]

-----------------------------------------------------------------------------
(* JSON values, parameters, upstream answers *)

JNone == [t |-> "None"]
JDict(f) == [t |-> "dict", d |-> f]
JList(s) == [t |-> "list", l |-> s]
JStr(s) == [t |-> "str", s |-> s]

\* the `data` payloads an upstream can put in its envelope
DataVector == JDict([k \in {"resultType", "result"} |->
                        IF k = "resultType" THEN JStr("vector") ELSE JList(<<"sample1">>)])
DataScalar == JDict([k \in {"resultType", "result"} |->
                        IF k = "resultType" THEN JStr("string") ELSE JStr("v")])
DataNames == JList(<<"up", "node_load1">>)
DataMetadata == JDict([k \in {"metadata"} |-> JList(<<"meta1">>)])
DataTargets == JDict([k \in {"activeTargets", "droppedTargets"} |->
                        IF k = "activeTargets" THEN JList(<<"target1">>) ELSE JList(<<>>)])

DataValues == {DataVector, DataScalar, DataNames, DataMetadata, DataTargets}

ErrorTexts == {"bad query"}

\* JSON bodies: the Prometheus envelope {"status": ..., "data": ..., "error": ...}
SuccessEnvelopes ==
    { JDict([k \in {"status", "data"} |-> IF k = "status" THEN "success" ELSE dv]) :
        dv \in DataValues }
    \cup { JDict([k \in {"status"} |-> "success"]) }

ErrorEnvelopes ==
    { JDict([k \in {"status", "error"} |-> IF k = "status" THEN st ELSE tx]) :
        st \in {"error", "partial"}, tx \in ErrorTexts }
    \cup { JDict([k \in {"status"} |-> "error"]) }

MalformedJSON == { JDict(EmptyDict) }

\* a body that does not parse: response.json() raises the JSON error class of
\* the installed requests (requests.exceptions.JSONDecodeError from 2.27 on,
\* json.JSONDecodeError before)
NotJSONBodies ==
    { [json |-> FALSE, raises |-> c] : c \in {"requests.JSONDecodeError", "json.JSONDecodeError"} }

JSONBody(v) == [json |-> TRUE, value |-> v]

OKStatuses == {200}
ErrorStatuses == {401, 403, 500}

\* exceptions requests.get itself raises
TransportExceptions == {"ConnectTimeout", "ReadTimeout", "ConnectionError", "TooManyRedirects"}

Upstream ==
    { [kind |-> "exception", cls |-> c] : c \in TransportExceptions }
    \cup { [kind |-> "response", status_code |-> s, body |-> b] :
             s \in OKStatuses,
             b \in NotJSONBodies \cup
                   { JSONBody(v) : v \in SuccessEnvelopes \cup ErrorEnvelopes \cup MalformedJSON } }
    \cup { [kind |-> "response", status_code |-> s, body |-> b] :
             s \in ErrorStatuses,
             b \in { JSONBody(v) : v \in { e \in ErrorEnvelopes :
                                              "error" \in DOMAIN e.d /\ e.d["status"] = "error" } } }

NoUpstream == [kind |-> "none"]

\* params argument of make_prometheus_request: None or a dict
PNone == [t |-> "None"]
PDict(f) == [t |-> "dict", d |-> f]

-----------------------------------------------------------------------------
(* Exceptions *)

\* the classes each exception class is an instance of (requests.exceptions,
\* json and the builtins)
ExceptionBases(cls) ==
    CASE cls = "ConnectTimeout" ->
            {"ConnectTimeout", "ConnectionError", "Timeout", "RequestException", "Exception"}
      [] cls = "ReadTimeout" -> {"ReadTimeout", "Timeout", "RequestException", "Exception"}
      [] cls = "ConnectionError" -> {"ConnectionError", "RequestException", "Exception"}
      [] cls = "TooManyRedirects" -> {"TooManyRedirects", "RequestException", "Exception"}
      [] cls = "HTTPError" -> {"HTTPError", "RequestException", "Exception"}
      [] cls = "requests.JSONDecodeError" ->
            {"requests.JSONDecodeError", "InvalidJSONError", "RequestException",
             "json.JSONDecodeError", "ValueError", "Exception"}
      [] cls = "json.JSONDecodeError" -> {"json.JSONDecodeError", "ValueError", "Exception"}
      [] cls = "KeyError" -> {"KeyError", "LookupError", "Exception"}
      [] cls = "TypeError" -> {"TypeError", "Exception"}
      [] cls = "ValueError" -> {"ValueError", "Exception"}

IsInstance(e, cls) == cls \in ExceptionBases(e.cls)

NoResponse == [present |-> FALSE]

\* an exception object: its class, str(e) and, for an HTTPError, e.response
Exc(cls, text) == [cls |-> cls, str |-> text, response |-> NoResponse]
HTTPErrorExc(status) ==
    [cls |-> "HTTPError", str |-> <<ToString(status), " Error for url">>,
     response |-> [present |-> TRUE, status_code |-> status]]

NoException == [cls |-> "None", str |-> <<>>, response |-> NoResponse]

KeyError(key) == Exc("KeyError", <<"'", key, "'">>)
TypeErrorNotSubscriptable == Exc("TypeError", <<"indices must be integers or slices, not str">>)
ValueError(text) == Exc("ValueError", text)

\* requests.Response.__bool__ is Response.ok: true when raise_for_status()
\* would not raise, i.e. the status is below 400; None is falsy
ResponseBool(r) == r.present /\ r.status_code < 400

-----------------------------------------------------------------------------
(* make_prometheus_request *)

Raise(e) == [raised |-> TRUE, exc |-> e, data |-> JNone]
Return(v) == [raised |-> FALSE, exc |-> NoException, data |-> v]

ConfigurationMissing ==
    "Prometheus configuration is missing. Please set PROMETHEUS_URL environment variable."

\* (variant: the envelope's error text is dropped)
EnvelopeErrorMessageDropped(result) == "Unknown error"

\* error_msg = result.get('error', 'Unknown error')
EnvelopeErrorMessage(result) ==
    IF "error" \in DOMAIN result.d THEN result.d["error"] ELSE "Unknown error"

\* the body of the try block: requests.get, raise_for_status, response.json,
\* the envelope's status check and the return of result["data"]
TryBody(up) ==
    IF up.kind = "exception" THEN Raise(Exc(up.cls, <<up.cls>>))
    ELSE IF up.status_code >= 400 THEN Raise(HTTPErrorExc(up.status_code))
    ELSE IF ~up.body.json THEN Raise(Exc(up.body.raises, <<"Expecting value: line 1 column 1 (char 0)">>))
    ELSE LET result == up.body.value IN
         IF result.t # "dict" THEN Raise(TypeErrorNotSubscriptable)
         ELSE IF "status" \notin DOMAIN result.d THEN Raise(KeyError("status"))
         ELSE IF result.d["status"] # "success" THEN
             LET error_msg == EnvelopeErrorMessage(result)
             IN  Raise(ValueError(<<"Prometheus API error: ", error_msg>>))
         ELSE IF "data" \notin DOMAIN result.d THEN Raise(KeyError("data"))
         ELSE Return(result.d["data"])

\* (variant: ConnectionError caught before Timeout)
ExceptClausesConnectionFirst ==
    <<"ConnectionError", "Timeout", "HTTPError", "RequestException",
      "json.JSONDecodeError", "Exception">>

\* the except clauses of the try block, in source order
ExceptClauses ==
    <<"Timeout", "ConnectionError", "HTTPError", "RequestException",
      "json.JSONDecodeError", "Exception">>

\* the first except clause whose class the exception is an instance of
MatchingClause(e) ==
    ExceptClauses[CHOOSE i \in 1..Len(ExceptClauses) :
                    /\ IsInstance(e, ExceptClauses[i])
                    /\ \A j \in 1..(i - 1) : ~IsInstance(e, ExceptClauses[j])]

\* status_code = e.response.status_code if e.response else "unknown"
HTTPStatusCode(e) ==
    IF ResponseBool(e.response) THEN ToString(e.response.status_code) ELSE "unknown"

\* the ValueError raised by the except clause that caught e
HandleException(cfg, clause, e) ==
    CASE clause = "Timeout" ->
            ValueError(<<"Prometheus server at ">> \o cfg.url
                       \o <<" is not responding (timeout after 30s)">>)
      [] clause = "ConnectionError" ->
            ValueError(<<"Cannot connect to Prometheus server at ">> \o cfg.url)
      [] clause = "HTTPError" ->
            LET status_code == HTTPStatusCode(e) IN
            IF status_code = ToString(401) THEN
                ValueError(<<"Authentication failed. Please check your Prometheus credentials.">>)
            ELSE IF status_code = ToString(403) THEN
                ValueError(<<"Access forbidden. Please check your Prometheus permissions.">>)
            ELSE
                ValueError(<<"HTTP ", status_code, " error from Prometheus server">>)
      [] clause = "RequestException" -> ValueError(<<"Request failed: ">> \o e.str)
      [] clause = "json.JSONDecodeError" ->
            ValueError(<<"Invalid JSON response from Prometheus: ">> \o e.str)
      [] clause = "Exception" -> ValueError(<<"Unexpected error: ">> \o e.str)

\* (variant: the URL check is skipped)
ConfigUrlMissingNever(cfg) == FALSE

\* if not config.url
ConfigUrlMissing(cfg) == cfg.url = <<>>

UserAgent == [k \in {"User-Agent"} |-> <<"prometheus-mcp-server/1.2.11">>]

RequestTimeout == 30

\* the arguments of requests.get
BuildRequest(cfg, endpoint, params) ==
    LET url == RStripSlash(cfg.url) \o <<"/api/v1/", endpoint>>
        auth0 == get_prometheus_auth(cfg)
        headers0 == IF auth0.type = "dict" THEN DictUpdate(UserAgent, auth0.dict) ELSE UserAgent
        auth == IF auth0.type = "dict" THEN [type |-> "None"] ELSE auth0
        headers == IF cfg.org_id # "" THEN DictSet(headers0, "X-Scope-OrgID", <<cfg.org_id>>)
                   ELSE headers0
    IN  [url |-> url, params |-> params, auth |-> auth, headers |-> headers,
         timeout |-> RequestTimeout]

\* (variant: a request that timed out is sent a second time)
make_prometheus_request_retry(cfg, endpoint, params, up) ==
    IF ConfigUrlMissing(cfg) THEN
        [requests |-> <<>>] @@ Raise(ValueError(<<ConfigurationMissing>>))
    ELSE
        LET body == TryBody(up)
            rq == BuildRequest(cfg, endpoint, params)
        IN  [requests |-> IF body.raised /\ IsInstance(body.exc, "Timeout")
                          THEN <<rq, rq>> ELSE <<rq>>] @@
            (IF body.raised
             THEN Raise(HandleException(cfg, MatchingClause(body.exc), body.exc))
             ELSE body)

\* make_prometheus_request(endpoint, params) when the upstream answers `up`:
\* the requests it issued and either the returned data or the raised error
make_prometheus_request(cfg, endpoint, params, up) ==
    IF ConfigUrlMissing(cfg) THEN
        [requests |-> <<>>] @@ Raise(ValueError(<<ConfigurationMissing>>))
    ELSE
        LET body == TryBody(up) IN
        [requests |-> <<BuildRequest(cfg, endpoint, params)>>] @@
        (IF body.raised
         THEN Raise(HandleException(cfg, MatchingClause(body.exc), body.exc))
         ELSE body)

-----------------------------------------------------------------------------
(* call_tool *)

NoHealthData == EmptyDict

\* what a handler body did: requests issued, and the content it built or the
\* exception that left it
BodyContent(reqs, content, hd) ==
    [requests |-> reqs, raised |-> FALSE, exc |-> NoException, content |-> content,
     health_data |-> hd]
BodyRaise(reqs, e) ==
    [requests |-> reqs, raised |-> TRUE, exc |-> e, content |-> <<>>,
     health_data |-> NoHealthData]

\* what call_tool did: requests issued, and the list of TextContent returned
\* or the exception raised to the caller
\* (caught is the exception the handler's except clause turned into text)
Returned(reqs, content, hd, caught) ==
    [requests |-> reqs, outcome |-> "returned", content |-> content, exc |-> NoException,
     caught |-> caught, health_data |-> hd]
Raised(reqs, e) ==
    [requests |-> reqs, outcome |-> "raised", content |-> <<>>, exc |-> e,
     caught |-> NoException, health_data |-> NoHealthData]

\* (variant: except ValueError instead of except Exception)
TryExceptValueError(prefix, body) ==
    IF body.raised
    THEN IF IsInstance(body.exc, "ValueError")
         THEN Returned(body.requests, << <<prefix>> \o body.exc.str >>, body.health_data,
                       body.exc)
         ELSE Raised(body.requests, body.exc)
    ELSE Returned(body.requests, body.content, body.health_data, NoException)

\* try: <body> except Exception as e: return [TextContent(text=f"<prefix>{str(e)}")]
TryExcept(prefix, body) ==
    IF body.raised
    THEN Returned(body.requests, << <<prefix>> \o body.exc.str >>, body.health_data,
                  body.exc)
    ELSE Returned(body.requests, body.content, body.health_data, NoException)

\* datetime.now(timezone.utc).isoformat() and str(int(time.time()))
\* (the clock is opaque: no handler branches on it)
IsoFormat == <<"<utc-now>">>
UnixTime == "<unix-time>"

BoolStr(b) == IF b THEN "True" ELSE "False"

\* len() of a JSON list or dict
PyLen(v) == IF v.t = "list" THEN Len(v.l) ELSE Cardinality(DOMAIN v.d)

\* the keys of a dict, as iteration yields them
RECURSIVE KeysSeq(_)
KeysSeq(S) == IF S = {} THEN <<>> ELSE LET k == CHOOSE x \in S : TRUE
                                       IN  <<k>> \o KeysSeq(S \ {k})

\* iteration over a JSON list or dict
PyIter(v) == IF v.t = "list" THEN v.l ELSE KeysSeq(DOMAIN v.d)

\* json.dumps(v, indent=2) of a list of strings or a string
JsonDumps(v) == IF v.t = "list" THEN <<"[">> \o v.l \o <<"]">> ELSE <<"\"", v.s, "\"">>

\* data[key] on the value make_prometheus_request returned
Subscript(data, key) ==
    IF data.t # "dict" THEN Raise(TypeErrorNotSubscriptable)
    ELSE IF key \notin DOMAIN data.d THEN Raise(KeyError(key))
    ELSE Return(data.d[key])

RECURSIVE Bullets(_)
Bullets(names) ==
    IF names = <<>> THEN <<>> ELSE <<"- ", names[1], "\n">> \o Bullets(Tail(names))

HealthProbeParams ==
    PDict([k \in {"query", "time"} |-> IF k = "query" THEN "up" ELSE UnixTime])

\* the health_data dict as first built, before the connectivity test
InitialHealthData(cfg) ==
    [status |-> "healthy",
     service |-> "prometheus-mcp-server",
     version |-> "1.2.11",
     timestamp |-> IsoFormat,
     transport |-> cfg.mcp_server_config.mcp_server_transport,
     configuration |-> [prometheus_url_configured |-> cfg.url # <<>>,
                        authentication_configured |-> (cfg.username # "" \/ cfg.token # ""),
                        org_id_configured |-> cfg.org_id # ""],
     checks |-> [server |-> "healthy", prometheus |-> "unknown"]]

\* the two TextContent blocks health_check returns
HealthContent(hd) ==
    << <<"Service: ", hd["service"], "\nStatus: ", hd["status"],
         "\nVersion: ", hd["version"], "\nTimestamp: ">> \o hd["timestamp"],
       <<"Prometheus URL configured: ", BoolStr(hd["configuration"].prometheus_url_configured),
         "\nAuthentication configured: ", BoolStr(hd["configuration"].authentication_configured),
         "\nOrg ID configured: ", BoolStr(hd["configuration"].org_id_configured)>> >>

\* health_data after a connectivity test that returned
ProbeHealthy(hd0, cfg) ==
    DictSet(DictSet(DictSet(hd0,
        "prometheus_connectivity", "healthy"),
        "prometheus_url", cfg.url),
        "checks", [hd0["checks"] EXCEPT !.prometheus = "healthy"])

\* (variant: a failed connectivity test leaves the status untouched)
ProbeFailedStatusKept(hd0, e) ==
    DictSet(DictSet(DictSet(hd0,
        "prometheus_connectivity", "unhealthy"),
        "prometheus_error", e.str),
        "checks", [hd0["checks"] EXCEPT !.prometheus = "unhealthy"])

\* health_data after a connectivity test that raised e
ProbeFailed(hd0, e) ==
    DictSet(DictSet(DictSet(DictSet(hd0,
        "prometheus_connectivity", "unhealthy"),
        "prometheus_error", e.str),
        "status", "degraded"),
        "checks", [hd0["checks"] EXCEPT !.prometheus = "unhealthy"])

\* (variant: the prometheus check keeps its initial value)
NotConfiguredCheckKept(hd0) ==
    DictSet(DictSet(hd0,
        "status", "unhealthy"),
        "error", "PROMETHEUS_URL not configured")

\* health_data when config.url is empty
NotConfigured(hd0) ==
    DictSet(DictSet(DictSet(hd0,
        "status", "unhealthy"),
        "error", "PROMETHEUS_URL not configured"),
        "checks", [hd0["checks"] EXCEPT !.prometheus = "not_configured"])

\* name == "health_check"
health_check(cfg, arguments, up) ==
    LET hd0 == InitialHealthData(cfg) IN
    IF cfg.url # <<>> THEN
        LET res == make_prometheus_request(cfg, "query", HealthProbeParams, up)
            hd == IF ~res.raised THEN ProbeHealthy(hd0, cfg) ELSE ProbeFailed(hd0, res.exc)
        IN  TryExcept("Health check failed: ", BodyContent(res.requests, HealthContent(hd), hd))
    ELSE
        LET hd == NotConfigured(hd0)
        IN  TryExcept("Health check failed: ", BodyContent(<<>>, HealthContent(hd), hd))

\* the part of the query handlers after make_prometheus_request returned data
QueryContent(reqs, data, header) ==
    LET result == Subscript(data, "result")
        resultType == Subscript(data, "resultType")
    IN  IF result.raised THEN BodyRaise(reqs, result.exc)
        ELSE IF resultType.raised THEN BodyRaise(reqs, resultType.exc)
        ELSE LET result_count == IF result.data.t = "list" THEN Len(result.data.l) ELSE 1
             IN  BodyContent(reqs,
                     << header \o <<"\nResult Type: ", resultType.data.s,
                                    "\nResults Count: ", ToString(result_count),
                                    "\nTimestamp: ">> \o IsoFormat,
                        <<"Results: ">> \o JsonDumps(result.data) >>,
                     NoHealthData)

\* (variant: the time argument is never forwarded)
TimeParamTruthyNever(time_param) == FALSE

\* if time_param:  (None and the empty string are falsy)
TimeParamTruthy(time_param) == time_param # ""

\* name == "execute_query"
execute_query(cfg, arguments, up) ==
    TryExcept("Query execution failed: ",
        IF "query" \notin DOMAIN arguments THEN BodyRaise(<<>>, KeyError("query"))
        ELSE
            LET query == arguments["query"]
                time_param == IF "time" \in DOMAIN arguments THEN arguments["time"] ELSE ""
                params0 == [k \in {"query"} |-> query]
                params == IF TimeParamTruthy(time_param) THEN DictSet(params0, "time", time_param)
                          ELSE params0
                res == make_prometheus_request(cfg, "query", PDict(params), up)
            IN  IF res.raised THEN BodyRaise(res.requests, res.exc)
                ELSE QueryContent(res.requests, res.data, <<"Query: ", query>>))

RangeQueryKeys == <<"query", "start", "end", "step">>

\* the first of arguments["query"], ["start"], ["end"], ["step"] that is missing
FirstMissing(arguments, keys) ==
    LET missing == { i \in 1..Len(keys) : keys[i] \notin DOMAIN arguments }
    IN  IF missing = {} THEN 0 ELSE CHOOSE i \in missing : \A j \in missing : i <= j

\* (variant: arguments.get(key) instead of arguments[key], nothing is checked)
execute_range_query_unchecked(cfg, arguments, up) ==
    TryExcept("Range query execution failed: ",
        LET params == [k \in {"query", "start", "end", "step"} |->
                          IF k \in DOMAIN arguments THEN arguments[k] ELSE "None"]
            res == make_prometheus_request(cfg, "query_range", PDict(params), up)
        IN  IF res.raised THEN BodyRaise(res.requests, res.exc)
            ELSE QueryContent(res.requests, res.data,
                     <<"Query: ", params["query"], "\nStart: ", params["start"],
                       "\nEnd: ", params["end"], "\nStep: ", params["step"]>>))

\* name == "execute_range_query"
execute_range_query(cfg, arguments, up) ==
    TryExcept("Range query execution failed: ",
        LET m == FirstMissing(arguments, RangeQueryKeys) IN
        IF m # 0 THEN BodyRaise(<<>>, KeyError(RangeQueryKeys[m]))
        ELSE
            LET params == [k \in {"query", "start", "end", "step"} |-> arguments[k]]
                res == make_prometheus_request(cfg, "query_range", PDict(params), up)
            IN  IF res.raised THEN BodyRaise(res.requests, res.exc)
                ELSE QueryContent(res.requests, res.data,
                         <<"Query: ", arguments["query"], "\nStart: ", arguments["start"],
                           "\nEnd: ", arguments["end"], "\nStep: ", arguments["step"]>>))

\* name == "list_metrics"
list_metrics(cfg, arguments, up) ==
    TryExcept("Failed to list metrics: ",
        LET res == make_prometheus_request(cfg, "label/__name__/values", PNone, up) IN
        IF res.raised THEN BodyRaise(res.requests, res.exc)
        ELSE BodyContent(res.requests,
                 << <<"Total metrics available: ", ToString(PyLen(res.data)),
                      "\nTimestamp: ">> \o IsoFormat,
                    <<"All available metrics:\n">> \o Bullets(PyIter(res.data)) >>,
                 NoHealthData))

\* name == "get_metric_metadata"
get_metric_metadata(cfg, arguments, up) ==
    TryExcept("Failed to get metric metadata: ",
        IF "metric" \notin DOMAIN arguments THEN BodyRaise(<<>>, KeyError("metric"))
        ELSE
            LET metric == arguments["metric"]
                params == [k \in {"metric"} |-> metric]
                res == make_prometheus_request(cfg, "metadata", PDict(params), up)
            IN  IF res.raised THEN BodyRaise(res.requests, res.exc)
                ELSE LET metadata == Subscript(res.data, "metadata") IN
                     IF metadata.raised THEN BodyRaise(res.requests, metadata.exc)
                     ELSE BodyContent(res.requests,
                              << <<"Metric: ", metric, "\nMetadata entries: ",
                                   ToString(PyLen(metadata.data)), "\nTimestamp: ">>
                                 \o IsoFormat,
                                 <<"Metadata: ">> \o JsonDumps(metadata.data) >>,
                              NoHealthData))

\* name == "get_targets"
get_targets(cfg, arguments, up) ==
    TryExcept("Failed to get targets: ",
        LET res == make_prometheus_request(cfg, "targets", PNone, up) IN
        IF res.raised THEN BodyRaise(res.requests, res.exc)
        ELSE LET active == Subscript(res.data, "activeTargets")
                 dropped == Subscript(res.data, "droppedTargets")
             IN  IF active.raised THEN BodyRaise(res.requests, active.exc)
                 ELSE IF dropped.raised THEN BodyRaise(res.requests, dropped.exc)
                 ELSE LET active_count == PyLen(active.data)
                          dropped_count == PyLen(dropped.data)
                      IN  BodyContent(res.requests,
                              << <<"Active targets: ", ToString(active_count),
                                   "\nDropped targets: ", ToString(dropped_count),
                                   "\nTotal targets: ", ToString(active_count + dropped_count),
                                   "\nTimestamp: ">> \o IsoFormat,
                                 <<"Active targets: ">> \o JsonDumps(active.data),
                                 <<"Dropped targets: ">> \o JsonDumps(dropped.data) >>,
                              NoHealthData))

\* (variant: the message does not name the tool)
UnknownToolErrorUnnamed(name) == ValueError(<<"Unknown tool">>)

\* raise ValueError(f"Unknown tool: {name}")
UnknownToolError(name) == ValueError(<<"Unknown tool: ", name>>)

\* (variant: list_tools also registers list_labels)
list_tools_with_list_labels ==
    <<"health_check", "execute_query", "execute_range_query", "list_metrics",
      "get_metric_metadata", "get_targets", "list_labels">>

\* list_tools(): the names of the types.Tool entries it returns, in order
list_tools ==
    <<"health_check", "execute_query", "execute_range_query", "list_metrics",
      "get_metric_metadata", "get_targets">>

\* the names list_tools() enumerates
ToolNames ==
    {"health_check", "execute_query", "execute_range_query", "list_metrics",
     "get_metric_metadata", "get_targets"}

\* the if / elif chain of call_tool
call_tool(cfg, name, arguments, up) ==
    CASE name = "health_check" -> health_check(cfg, arguments, up)
      [] name = "execute_query" -> execute_query(cfg, arguments, up)
      [] name = "execute_range_query" -> execute_range_query(cfg, arguments, up)
      [] name = "list_metrics" -> list_metrics(cfg, arguments, up)
      [] name = "get_metric_metadata" -> get_metric_metadata(cfg, arguments, up)
      [] name = "get_targets" -> get_targets(cfg, arguments, up)
      [] OTHER -> Raised(<<>>, UnknownToolError(name))

-----------------------------------------------------------------------------------------------------------------------------------------------------
(* State machine *)
(* config    : the module-level PrometheusConfig                           *)
(* httpCount : number of requests.get calls made so far                    *)
(* lastCall  : the most recent invocation: what was called with what, the  *)
(*             requests it issued, what the upstream answered and how the  *)
(*             invocation ended                                            *)

\* the value of config before the module body has run
NotLoaded == [loaded |-> FALSE]

NoCall ==
    [op |-> "none", name |-> "", arguments |-> PNone, upstream |-> NoUpstream,
     requests |-> <<>>, outcome |-> "none", content |-> <<>>, exc |-> NoException,
     caught |-> NoException, data |-> JNone, health_data |-> NoHealthData]

QueryArguments ==
    { [k \in S |-> IF k = "query" THEN "up" ELSE t] :
        S \in SUBSET {"query", "time"}, t \in {"", "2023-01-01T00:00:00Z"} }

RangeArgumentValue(k) ==
    CASE k = "query" -> "up"
      [] k = "start" -> "2023-01-01T00:00:00Z"
      [] k = "end" -> "2023-01-01T01:00:00Z"
      [] k = "step" -> "15s"

RangeArguments ==
    { [k \in S |-> RangeArgumentValue(k)] : S \in SUBSET {"query", "start", "end", "step"} }

MetadataArguments == { EmptyDict, [k \in {"metric"} |-> "up"] }

NoArguments == { EmptyDict }

UnknownNames == {"list_labels", "no_such_tool"}

\* (endpoint, params) pairs for make_prometheus_request called on its own
DirectRequests ==
    { <<"query", PDict([k \in {"query"} |-> "up"])>>, <<"targets", PNone>> }

Init ==
    /\ config \in PrometheusConfig
    /\ httpCount = 0
    /\ lastCall = NoCall

AnyUpstream == CHOOSE u \in Upstream : TRUE

\* the upstream answers exactly the requests it receives: an invocation that
\* issues no request sees no answer
Answers(requests) == IF requests = <<>> THEN {NoUpstream} ELSE Upstream

\* (variant: an invocation whose request failed clears the configured URL)
CallClearingUrl(name, arguments) ==
    LET requests == call_tool(config, name, arguments, AnyUpstream).requests IN
    /\ config # NotLoaded
    /\ requests = <<>> \/ httpCount < MaxRequests
    /\ \E up \in Answers(requests) :
         \E r \in { call_tool(config, name, arguments,
                              IF up = NoUpstream THEN AnyUpstream ELSE up) } :
             /\ httpCount' = httpCount + Len(r.requests)
             /\ lastCall' = [op |-> "call_tool", name |-> name,
                             arguments |-> PDict(arguments), upstream |-> up,
                             requests |-> r.requests, outcome |-> r.outcome,
                             content |-> r.content, exc |-> r.exc, caught |-> r.caught,
                             data |-> JNone, health_data |-> r.health_data]
             /\ config' = IF r.caught # NoException /\ r.requests # <<>>
                          THEN [config EXCEPT !.url = <<>>] ELSE config

\* one call_tool(name, arguments) invocation, from dispatch to return or raise
Call(name, arguments) ==
    LET requests == call_tool(config, name, arguments, AnyUpstream).requests IN
    /\ config # NotLoaded  \* the module body has run
    /\ requests = <<>> \/ httpCount < MaxRequests
    /\ \E up \in Answers(requests) :
         \E r \in { call_tool(config, name, arguments,
                              IF up = NoUpstream THEN AnyUpstream ELSE up) } :
             /\ httpCount' = httpCount + Len(r.requests)
             /\ lastCall' = [op |-> "call_tool", name |-> name,
                             arguments |-> PDict(arguments), upstream |-> up,
                             requests |-> r.requests, outcome |-> r.outcome,
                             content |-> r.content, exc |-> r.exc, caught |-> r.caught,
                             data |-> JNone, health_data |-> r.health_data]
    /\ UNCHANGED config

HealthCheck == \E a \in NoArguments : Call("health_check", a)

ExecuteQuery == \E a \in QueryArguments : Call("execute_query", a)

ExecuteRangeQuery == \E a \in RangeArguments : Call("execute_range_query", a)

ListMetrics == \E a \in NoArguments : Call("list_metrics", a)

GetMetricMetadata == \E a \in MetadataArguments : Call("get_metric_metadata", a)

GetTargets == \E a \in NoArguments : Call("get_targets", a)

UnknownTool == \E n \in UnknownNames, a \in NoArguments : Call(n, a)

\* make_prometheus_request(endpoint, params) called on its own
MakeRequest ==
    \E d \in DirectRequests :
        LET requests == make_prometheus_request(config, d[1], d[2], AnyUpstream).requests IN
        /\ requests = <<>> \/ httpCount < MaxRequests
        /\ \E up \in Answers(requests) :
             \E r \in { make_prometheus_request(config, d[1], d[2],
                            IF up = NoUpstream THEN AnyUpstream ELSE up) } :
                 /\ httpCount' = httpCount + Len(r.requests)
                 /\ lastCall' = [op |-> "make_prometheus_request", name |-> d[1],
                                 arguments |-> d[2], upstream |-> up,
                                 requests |-> r.requests,
                                 outcome |-> IF r.raised THEN "raised" ELSE "returned",
                                 content |-> <<>>, exc |-> r.exc, caught |-> NoException,
                                 data |-> r.data, health_data |-> NoHealthData]
        /\ UNCHANGED config

Next ==
    \/ HealthCheck
    \/ ExecuteQuery
    \/ ExecuteRangeQuery
    \/ ListMetrics
    \/ GetMetricMetadata
    \/ GetTargets
    \/ UnknownTool
    \/ MakeRequest

Spec == Init /\ [][Next]_vars

-----------------------------------------------------------------------------
(* Startup: the module-level construction of config from the environment *)

\* an environment variable: unset, or set to a value
Unset == [set |-> FALSE]
Set(v) == [set |-> TRUE, value |-> v]
Opt(V) == {Unset} \cup { Set(v) : v \in V }

\* os.environ.get(name, default)
environ_get(var, default) == IF var.set THEN var.value ELSE default

\* the environments the process is started in
Environments ==
    { [PROMETHEUS_URL |-> u, PROMETHEUS_USERNAME |-> Unset, PROMETHEUS_PASSWORD |-> Unset,
       PROMETHEUS_TOKEN |-> Unset, ORG_ID |-> Unset,
       PROMETHEUS_MCP_SERVER_TRANSPORT |-> t, PROMETHEUS_MCP_BIND_HOST |-> h,
       PROMETHEUS_MCP_BIND_PORT |-> p] :
        u \in Opt({ <<>>, <<"http://prom:9090", "/">> }),
        t \in Opt({"", "stdio", "HTTP", "sse", "invalid-transport"}),
        h \in Opt({""}),
        p \in Opt({"0", "invalid-port"}) }

\* class TransportType(str, Enum)
TransportType == {"stdio", "http", "sse"}

\* str.lower() on the transport names explored
Lower(s) ==
    CASE s = "STDIO" -> "stdio"
      [] s = "HTTP" -> "http"
      [] s = "SSE" -> "sse"
      [] OTHER -> s

\* int(s): the strings that parse, and their values
IsIntLiteral(s) == s \in {"0", "8080", "9090"}
PyInt(s) ==
    CASE s = "0" -> 0
      [] s = "8080" -> 8080
      [] s = "9090" -> 9090

\* the ValueError MCPServerConfig.__post_init__ raises for an invalid c
MCPServerConfigError(c) ==
    IF c.mcp_server_transport = "" THEN ValueError(<<"MCP SERVER TRANSPORT is required">>)
    ELSE IF c.mcp_bind_host = "" THEN ValueError(<<"MCP BIND HOST is required">>)
    ELSE ValueError(<<"MCP BIND PORT is required">>)

ConfigRaise(e) == [raised |-> TRUE, exc |-> e, config |-> NotLoaded]
ConfigReturn(c) == [raised |-> FALSE, exc |-> NoException, config |-> c]

\* (variant: an empty PROMETHEUS_URL is rejected when config is constructed)
LoadConfigUrlRequired(env) ==
    LET transport == Lower(environ_get(env.PROMETHEUS_MCP_SERVER_TRANSPORT, "stdio"))
        host == environ_get(env.PROMETHEUS_MCP_BIND_HOST, "127.0.0.1")
        port == environ_get(env.PROMETHEUS_MCP_BIND_PORT, "8080")
    IN  IF ~IsIntLiteral(port)
        THEN ConfigRaise(ValueError(<<"invalid literal for int() with base 10: '", port, "'">>))
        ELSE LET mcp == [mcp_server_transport |-> transport, mcp_bind_host |-> host,
                         mcp_bind_port |-> PyInt(port)]
             IN  IF ~MCPServerConfigValid(mcp) THEN ConfigRaise(MCPServerConfigError(mcp))
                 ELSE IF environ_get(env.PROMETHEUS_URL, <<>>) = <<>>
                 THEN ConfigRaise(ValueError(<<ConfigurationMissing>>))
                 ELSE ConfigReturn([url |-> environ_get(env.PROMETHEUS_URL, <<>>),
                                    username |-> environ_get(env.PROMETHEUS_USERNAME, ""),
                                    password |-> environ_get(env.PROMETHEUS_PASSWORD, ""),
                                    token |-> environ_get(env.PROMETHEUS_TOKEN, ""),
                                    org_id |-> environ_get(env.ORG_ID, ""),
                                    mcp_server_config |-> mcp])

\* config = PrometheusConfig(url=os.environ.get(...), ...,
\*     mcp_server_config=MCPServerConfig(...)): the arguments are evaluated in
\* order, int() last, then MCPServerConfig.__post_init__ validates
LoadConfig(env) ==
    LET transport == Lower(environ_get(env.PROMETHEUS_MCP_SERVER_TRANSPORT, "stdio"))
        host == environ_get(env.PROMETHEUS_MCP_BIND_HOST, "127.0.0.1")
        port == environ_get(env.PROMETHEUS_MCP_BIND_PORT, "8080")
    IN  IF ~IsIntLiteral(port)
        THEN ConfigRaise(ValueError(<<"invalid literal for int() with base 10: '", port, "'">>))
        ELSE LET mcp == [mcp_server_transport |-> transport, mcp_bind_host |-> host,
                         mcp_bind_port |-> PyInt(port)]
             IN  IF ~MCPServerConfigValid(mcp) THEN ConfigRaise(MCPServerConfigError(mcp))
                 ELSE ConfigReturn([url |-> environ_get(env.PROMETHEUS_URL, <<>>),
                                    username |-> environ_get(env.PROMETHEUS_USERNAME, ""),
                                    password |-> environ_get(env.PROMETHEUS_PASSWORD, ""),
                                    token |-> environ_get(env.PROMETHEUS_TOKEN, ""),
                                    org_id |-> environ_get(env.ORG_ID, ""),
                                    mcp_server_config |-> mcp])

InitStartup ==
    /\ config = NotLoaded
    /\ httpCount = 0
    /\ lastCall = NoCall

\* the module body runs once; a raise there ends the process
Startup ==
    /\ config = NotLoaded
    /\ lastCall.op = "none"
    /\ \E env \in Environments :
         LET r == LoadConfig(env)
         IN  /\ config' = r.config
             /\ lastCall' = [NoCall EXCEPT !.op = "startup", !.arguments = PDict(env),
                                           !.outcome = IF r.raised THEN "raised" ELSE "returned",
                                           !.exc = r.exc]
    /\ UNCHANGED httpCount

NextStartup ==
    \/ Startup
    \/ HealthCheck
    \/ ExecuteQuery
    \/ ExecuteRangeQuery
    \/ ListMetrics
    \/ GetMetricMetadata
    \/ GetTargets

SpecStartup == InitStartup /\ [][NextStartup]_vars

-----------------------------------------------------------------------------
(* Listing calls: call_tool invoked the way tests/test_tools.py invokes the *)
(* listing tools, with and without the optional limit, start and end       *)

LimitValues == {0, 1, 2}

FindSeriesArgumentValue(k) ==
    CASE k = "match" -> <<"up">>
      [] k = "limit" -> 2
      [] k = "start" -> "2023-01-01T00:00:00Z"
      [] k = "end" -> "2023-01-01T01:00:00Z"

\* the arguments of a listing call: base, plus limit |-> l when given
WithLimit(base, given, l) ==
    IF given THEN [k \in DOMAIN base \cup {"limit"} |-> IF k = "limit" THEN l ELSE base[k]]
    ELSE base

ListMetricsLimit ==
    \E given \in BOOLEAN, l \in LimitValues :
        Call("list_metrics", WithLimit(EmptyDict, given, l))

GetMetricMetadataLimit ==
    \E given \in BOOLEAN, l \in LimitValues :
        Call("get_metric_metadata", WithLimit([k \in {"metric"} |-> "up"], given, l))

ListLabels ==
    \E given \in BOOLEAN, l \in LimitValues :
        Call("list_labels", WithLimit(EmptyDict, given, l))

GetLabelValues ==
    \E given \in BOOLEAN, l \in LimitValues :
        Call("get_label_values", WithLimit([k \in {"label_name"} |-> "job"], given, l))

FindSeries ==
    \E S \in SUBSET {"limit", "start", "end"} :
        Call("find_series", [k \in {"match"} \cup S |-> FindSeriesArgumentValue(k)])

NextListing ==
    \/ ListMetricsLimit
    \/ GetMetricMetadataLimit
    \/ ListLabels
    \/ GetLabelValues
    \/ FindSeries

SpecListing == Init /\ [][NextListing]_vars

-----------------------------------------------------------------------------
(* validate_limit_parameter: the limit coercion helper the limit tests call. *)
(* A string is a sequence of one-character strings.                          *)

\* longest string and largest integer magnitude given to the helper
MaxLen == 3
MaxInt == 3

Chars == {" ", "+", "-", "0", "1", "2", ".", "a"}
Digits == {"0", "1", "2"}

Strings == UNION { [1..n -> Chars] : n \in 0..MaxLen }

\* a limit value: None, an int or a str
LimitInt(n) == [t |-> "int", n |-> n]
LimitStr(s) == [t |-> "str", s |-> s]
LimitInputs ==
    {PNone} \cup { LimitInt(n) : n \in -MaxInt..MaxInt } \cup { LimitStr(s) : s \in Strings }

\* str.lstrip() and str.rstrip() on the whitespace of Chars
RECURSIVE LStrip(_)
LStrip(s) == IF s # <<>> /\ s[1] = " " THEN LStrip(Tail(s)) ELSE s

RECURSIVE RStrip(_)
RStrip(s) == IF s # <<>> /\ s[Len(s)] = " " THEN RStrip(SubSeq(s, 1, Len(s) - 1)) ELSE s

\* (variant: only leading whitespace is stripped)
StripLeading(s) == LStrip(s)

\* str.strip()
Strip(s) == RStrip(LStrip(s))

DigitValue(c) ==
    CASE c = "0" -> 0
      [] c = "1" -> 1
      [] c = "2" -> 2

\* the value of a run of decimal digits, most significant first
RECURSIVE DigitsValue(_)
DigitsValue(ds) ==
    IF ds = <<>> THEN 0
    ELSE DigitsValue(SubSeq(ds, 1, Len(ds) - 1)) * 10 + DigitValue(ds[Len(ds)])

\* the message of the invalid-parameter error for the string s
InvalidLimit(s) ==
    <<"Invalid limit value '">> \o s \o <<"'", ": ", "must be a valid integer">>

\* (variant: an integer below zero is clamped to zero)
validate_limit_parameter_clamped(limit) ==
    IF limit.t = "None" THEN Return(PNone)
    ELSE IF limit.t = "int" THEN Return(IF limit.n < 0 THEN LimitInt(0) ELSE limit)
    ELSE LET stripped == Strip(limit.s)
             signed == stripped # <<>> /\ stripped[1] \in {"+", "-"}
             digits == IF signed THEN Tail(stripped) ELSE stripped
         IN  IF digits # <<>> /\ \A i \in 1..Len(digits) : digits[i] \in Digits
             THEN Return(LimitInt(IF signed /\ stripped[1] = "-"
                                  THEN 0 - DigitsValue(digits) ELSE DigitsValue(digits)))
             ELSE Raise(ValueError(InvalidLimit(limit.s)))

\* validate_limit_parameter(limit): None and integers pass through; a string is
\* stripped and parsed as an optionally signed run of decimal digits
validate_limit_parameter(limit) ==
    IF limit.t = "None" THEN Return(PNone)
    ELSE IF limit.t = "int" THEN Return(limit)
    ELSE LET stripped == Strip(limit.s)
             signed == stripped # <<>> /\ stripped[1] \in {"+", "-"}
             digits == IF signed THEN Tail(stripped) ELSE stripped
         IN  IF digits # <<>> /\ \A i \in 1..Len(digits) : digits[i] \in Digits
             THEN Return(LimitInt(IF signed /\ stripped[1] = "-"
                                  THEN 0 - DigitsValue(digits) ELSE DigitsValue(digits)))
             ELSE Raise(ValueError(InvalidLimit(limit.s)))

\* a caller holds a limit value it has not validated yet
InitLimit ==
    /\ config = LoadConfig(CHOOSE env \in Environments :
                               \A k \in DOMAIN env : env[k] = Unset).config
    /\ httpCount = 0
    /\ \E limit \in LimitInputs :
         lastCall = [NoCall EXCEPT !.op = "limit", !.arguments = limit]

\* one validate_limit_parameter(limit) call
ValidateLimit ==
    /\ lastCall.op = "limit"
    /\ LET r == validate_limit_parameter(lastCall.arguments)
       IN  lastCall' = [lastCall EXCEPT !.op = "validate_limit_parameter",
                                        !.outcome = IF r.raised THEN "raised" ELSE "returned",
                                        !.exc = r.exc, !.data = r.data]
    /\ UNCHANGED <<config, httpCount>>

NextLimit == ValidateLimit

SpecLimit == InitLimit /\ [][NextLimit]_vars

-----------------------------------------------------------------------------
(* Registry: list_tools() and call_tool() served side by side *)

\* one list_tools() invocation
ListTools ==
    /\ config # NotLoaded
    /\ lastCall' = [NoCall EXCEPT !.op = "list_tools", !.outcome = "returned",
                                  !.data = JList(list_tools)]
    /\ UNCHANGED <<config, httpCount>>

\* call_tool with an enumerated or a foreign name and no arguments
Dispatch ==
    \E name \in { list_tools[i] : i \in 1..Len(list_tools) } \cup UnknownNames :
        Call(name, EmptyDict)

NextRegistry ==
    \/ ListTools
    \/ Dispatch

SpecRegistry == Init /\ [][NextRegistry]_vars

-----------------------------------------------------------------------------
(* Event loop: call_tool is a coroutine run by the single-threaded asyncio *)
(* loop; it contains no await, and requests.get is a blocking call made on *)
(* the loop's thread. An invocation that is inside requests.get has        *)
(* lastCall.outcome = "waiting".                                           *)

Waiting == lastCall.outcome = "waiting"

\* the loop takes call_tool(name, arguments) and runs it up to requests.get,
\* or to its end when it issues no request
BeginCall(name, arguments) ==
    /\ config # NotLoaded
    /\ ~Waiting  \* the loop's thread is not inside requests.get
    /\ \E r \in { call_tool(config, name, arguments, AnyUpstream) } :
         /\ r.requests = <<>> \/ httpCount < MaxRequests
         /\ httpCount' = httpCount + Len(r.requests)
         /\ lastCall' = IF r.requests = <<>>
                        THEN [op |-> "call_tool", name |-> name,
                              arguments |-> PDict(arguments), upstream |-> NoUpstream,
                              requests |-> r.requests, outcome |-> r.outcome,
                              content |-> r.content, exc |-> r.exc, caught |-> r.caught,
                              data |-> JNone, health_data |-> r.health_data]
                        ELSE [op |-> "call_tool", name |-> name,
                              arguments |-> PDict(arguments), upstream |-> NoUpstream,
                              requests |-> r.requests, outcome |-> "waiting",
                              content |-> <<>>, exc |-> NoException, caught |-> NoException,
                              data |-> JNone, health_data |-> NoHealthData]
    /\ UNCHANGED config

BeginHealthCheck == \E a \in NoArguments : BeginCall("health_check", a)

BeginExecuteQuery == \E a \in QueryArguments : BeginCall("execute_query", a)

BeginGetTargets == \E a \in NoArguments : BeginCall("get_targets", a)

BeginUnknownTool == \E n \in UnknownNames, a \in NoArguments : BeginCall(n, a)

\* requests.get returns or raises and the handler runs to its end
Respond ==
    /\ Waiting
    /\ \E up \in Upstream :
         \E r \in { call_tool(config, lastCall.name, lastCall.arguments.d, up) } :
             lastCall' = [lastCall EXCEPT !.upstream = up, !.outcome = r.outcome,
                                          !.content = r.content, !.exc = r.exc,
                                          !.caught = r.caught,
                                          !.health_data = r.health_data]
    /\ UNCHANGED <<config, httpCount>>

NextLoop ==
    \/ BeginHealthCheck
    \/ BeginExecuteQuery
    \/ BeginGetTargets
    \/ BeginUnknownTool
    \/ Respond

SpecLoop == Init /\ [][NextLoop]_vars

-----------------------------------------------------------------------------
(* Logging: make_prometheus_request with a logger whose calls can raise.   *)
(* No log call is wrapped in a try of its own.                             *)

\* which log calls raise: the debug call that opens the try block (start),
\* the calls made inside the try block once the response is parsed (result)
\* and the error calls of the URL check and of the except clauses (error)
LogOutcomes == [start : BOOLEAN, result : BOOLEAN, error : BOOLEAN]

\* the exception a failing log call raises
LogError == Exc("TypeError", <<"Object of type set is not JSON serializable">>)

\* the try body reached one of its own log calls: the error call for a
\* non-success envelope, or the debug call that precedes `return result["data"]`
LoggedInTry(body) ==
    \/ ~body.raised
    \/ body.exc = KeyError("data")
    \/ body.exc.cls = "ValueError"

\* make_prometheus_request(endpoint, params) when the upstream answers `up`
\* and the log calls named by `log` raise
make_prometheus_request_logged(cfg, endpoint, params, up, log) ==
    IF ConfigUrlMissing(cfg) THEN
        [requests |-> <<>>] @@
        (IF log.error THEN Raise(LogError) ELSE Raise(ValueError(<<ConfigurationMissing>>)))
    ELSE
        LET sent == IF log.start THEN <<>> ELSE <<BuildRequest(cfg, endpoint, params)>>
            body == IF log.start THEN Raise(LogError)
                    ELSE IF log.result /\ LoggedInTry(TryBody(up)) THEN Raise(LogError)
                    ELSE TryBody(up)
        IN  [requests |-> sent] @@
            (IF body.raised
             THEN IF log.error THEN Raise(LogError)
                  ELSE Raise(HandleException(cfg, MatchingClause(body.exc), body.exc))
             ELSE body)

\* make_prometheus_request(endpoint, params) called on its own, under a
\* logger that may fail
MakeRequestLogged ==
    \E d \in DirectRequests, log \in LogOutcomes :
        LET requests == make_prometheus_request_logged(config, d[1], d[2], AnyUpstream, log).requests IN
        /\ config # NotLoaded
        /\ requests = <<>> \/ httpCount < MaxRequests
        /\ \E up \in Answers(requests) :
             \E r \in { make_prometheus_request_logged(config, d[1], d[2],
                            IF up = NoUpstream THEN AnyUpstream ELSE up, log) } :
                 /\ httpCount' = httpCount + Len(r.requests)
                 /\ lastCall' = [op |-> "make_prometheus_request", name |-> d[1],
                                 arguments |-> d[2], upstream |-> up,
                                 requests |-> r.requests,
                                 outcome |-> IF r.raised THEN "raised" ELSE "returned",
                                 content |-> <<>>, exc |-> r.exc, caught |-> NoException,
                                 data |-> r.data, health_data |-> NoHealthData]
        /\ UNCHANGED config

NextLogging == MakeRequestLogged

SpecLogging == Init /\ [][NextLogging]_vars

-----------------------------------------------------------------------------
(* Properties *)

IsToolCall == lastCall.op = "call_tool"
IsDirectRequest == lastCall.op = "make_prometheus_request"

\* the upstream answered the last invocation with an HTTP response
GotResponse == lastCall.upstream.kind = "response"

\* ... whose body is a JSON envelope with a status field other than "success"
GotNonSuccessEnvelope ==
    /\ GotResponse
    /\ lastCall.upstream.body.json
    /\ lastCall.upstream.body.value.t = "dict"
    /\ "status" \in DOMAIN lastCall.upstream.body.value.d
    /\ lastCall.upstream.body.value.d["status"] # "success"

\* the error text of that envelope, "Unknown error" when it has none
EnvelopeText ==
    LET d == lastCall.upstream.body.value.d
    IN  IF "error" \in DOMAIN d THEN d["error"] ELSE "Unknown error"

\* the upstream answer is one make_prometheus_request returns data for
UpstreamSucceeded ==
    /\ GotResponse
    /\ lastCall.upstream.status_code < 400
    /\ lastCall.upstream.body.json
    /\ lastCall.upstream.body.value.t = "dict"
    /\ "status" \in DOMAIN lastCall.upstream.body.value.d
    /\ lastCall.upstream.body.value.d["status"] = "success"
    /\ "data" \in DOMAIN lastCall.upstream.body.value.d

SomeBlockContains(t) == \E i \in 1..Len(lastCall.content) : Contains(lastCall.content[i], t)

DataTools == ToolNames \ {"health_check"}

TimeoutText == " is not responding (timeout after 30s)"
CannotConnectText == "Cannot connect to Prometheus server at "

\* C1: with an empty config.url, make_prometheus_request raises the
\* configuration error (the ValueError naming PROMETHEUS_URL) whatever the
\* endpoint and params, and the step issues no HTTP request: httpCount is
\* unchanged.
C1_EmptyUrlFailsBeforeNetwork ==
    [][ (config.url = <<>> /\ lastCall'.op = "make_prometheus_request")
        => /\ lastCall'.outcome = "raised"
           /\ lastCall'.exc.cls = "ValueError"
           /\ lastCall'.exc.str = <<ConfigurationMissing>>
           /\ lastCall'.requests = <<>>
           /\ httpCount' = httpCount ]_vars

C1_Witness ==
    /\ config.url = <<>>
    /\ IsDirectRequest
    /\ lastCall.name = "targets"
    /\ lastCall.arguments = PNone
    /\ lastCall.outcome = "raised"
    /\ httpCount = 0

\* C2: every outbound request carries the bearer header and no basic auth when
\* a token is configured (username and password notwithstanding), basic auth
\* and no Authorization header when there is no token but both a username and
\* a password, and no authentication otherwise.
C2_AuthPrecedence ==
    \A i \in 1..Len(lastCall.requests) :
        LET rq == lastCall.requests[i] IN
        IF config.token # "" THEN
            /\ "Authorization" \in DOMAIN rq.headers
            /\ rq.headers["Authorization"] = <<"Bearer ", config.token>>
            /\ rq.auth.type = "None"
        ELSE IF config.username # "" /\ config.password # "" THEN
            /\ rq.auth = [type |-> "HTTPBasicAuth", username |-> config.username,
                          password |-> config.password]
            /\ "Authorization" \notin DOMAIN rq.headers
        ELSE
            /\ rq.auth.type = "None"
            /\ "Authorization" \notin DOMAIN rq.headers

C2_Witness ==
    /\ config.token # ""
    /\ config.username # ""
    /\ config.password # ""
    /\ Len(lastCall.requests) = 1
    /\ lastCall.requests[1].auth.type = "None"
    /\ "Authorization" \in DOMAIN lastCall.requests[1].headers

\* C3: a call_tool invocation with a registered tool name never raises: it
\* returns content, and an exception caught at the handler boundary is returned
\* as one text block that carries the exception's message.
C3_RegisteredToolNeverRaises ==
    (IsToolCall /\ lastCall.name \in ToolNames)
    => /\ lastCall.outcome = "returned"
       /\ lastCall.exc = NoException
       /\ lastCall.content # <<>>
       /\ lastCall.caught # NoException
            => /\ Len(lastCall.content) = 1
               /\ \A j \in 1..Len(lastCall.caught.str) :
                     Contains(lastCall.content[1], lastCall.caught.str[j])

C3_Witness ==
    /\ IsToolCall
    /\ lastCall.name = "execute_range_query"
    /\ "step" \notin DOMAIN lastCall.arguments.d
    /\ lastCall.caught.cls = "KeyError"
    /\ lastCall.outcome = "returned"
    /\ Contains(lastCall.content[1], "Range query execution failed: ")

\* C4: a call_tool invocation with a name that is not a registered tool raises
\* an error whose message contains that name, and issues no HTTP request.
C4_UnknownToolRaises ==
    (IsToolCall /\ lastCall.name \notin ToolNames)
    => /\ lastCall.outcome = "raised"
       /\ Contains(lastCall.exc.str, lastCall.name)
       /\ lastCall.requests = <<>>

C4_Witness ==
    /\ IsToolCall
    /\ lastCall.name = "no_such_tool"
    /\ lastCall.outcome = "raised"
    /\ lastCall.exc.cls = "ValueError"

\* C5 as stated: whenever the upstream's envelope has a status other than
\* "success", make_prometheus_request raises an error containing the envelope's
\* error text (or "Unknown error"), and the tool call that issued the request
\* returns a failure message containing that text.
C5_AsStated ==
    GotNonSuccessEnvelope
    => /\ IsDirectRequest
            => /\ lastCall.outcome = "raised"
               /\ Contains(lastCall.exc.str, EnvelopeText)
       /\ IsToolCall
            => /\ lastCall.outcome = "returned"
               /\ lastCall.caught # NoException
               /\ SomeBlockContains(EnvelopeText)

\* C5 amended: when the upstream answers with an HTTP status below 400 and an
\* envelope whose status is other than "success", make_prometheus_request
\* raises an error containing the envelope's error text (or "Unknown error"),
\* and a data-fetching tool call that issued the request returns a single
\* failure text containing it; health_check returns its report with status
\* "degraded", the text being kept in health_data only.
C5_NonSuccessEnvelope ==
    (GotNonSuccessEnvelope /\ lastCall.upstream.status_code < 400)
    => /\ IsDirectRequest
            => /\ lastCall.outcome = "raised"
               /\ Contains(lastCall.exc.str, EnvelopeText)
       /\ (IsToolCall /\ lastCall.name \in DataTools)
            => /\ lastCall.outcome = "returned"
               /\ lastCall.caught # NoException
               /\ Len(lastCall.content) = 1
               /\ Contains(lastCall.content[1], EnvelopeText)
       /\ (IsToolCall /\ lastCall.name = "health_check")
            => /\ lastCall.outcome = "returned"
               /\ lastCall.health_data["status"] = "degraded"
               /\ Contains(lastCall.health_data["prometheus_error"], EnvelopeText)
               /\ ~SomeBlockContains(EnvelopeText)

C5_Witness ==
    /\ GotNonSuccessEnvelope
    /\ lastCall.upstream.status_code = 200
    /\ EnvelopeText = "bad query"
    /\ IsToolCall
    /\ lastCall.name = "execute_query"
    /\ Contains(lastCall.content[1], "Query execution failed: ")
    /\ Contains(lastCall.content[1], "bad query")

\* C6: make_prometheus_request turns an HTTP 401 into the "authentication
\* failed" error, a 403 into the "access forbidden" error and any other HTTP
\* error status s into "HTTP s error", s being the status of the response.
C6_HTTPErrorClassification ==
    (IsDirectRequest /\ GotResponse /\ lastCall.upstream.status_code >= 400)
    => /\ lastCall.outcome = "raised"
       /\ lastCall.exc.str =
            (CASE lastCall.upstream.status_code = 401 ->
                    <<"Authentication failed. Please check your Prometheus credentials.">>
               [] lastCall.upstream.status_code = 403 ->
                    <<"Access forbidden. Please check your Prometheus permissions.">>
               [] OTHER ->
                    <<"HTTP ", ToString(lastCall.upstream.status_code),
                      " error from Prometheus server">>)

\* C7: in make_prometheus_request a timeout, a connect timeout included, gives
\* the "not responding (timeout after 30s)" error and never the "cannot
\* connect" one; a connection error that is not a timeout gives the "cannot
\* connect" error and never the timeout one.
C7_TransportClassification ==
    (IsDirectRequest /\ lastCall.upstream.kind = "exception")
    => LET bases == ExceptionBases(lastCall.upstream.cls) IN
       /\ lastCall.outcome = "raised"
       /\ "Timeout" \in bases
            => /\ Contains(lastCall.exc.str, TimeoutText)
               /\ ~Contains(lastCall.exc.str, CannotConnectText)
       /\ ("ConnectionError" \in bases /\ "Timeout" \notin bases)
            => /\ Contains(lastCall.exc.str, CannotConnectText)
               /\ ~Contains(lastCall.exc.str, TimeoutText)

C7_Witness ==
    /\ IsDirectRequest
    /\ lastCall.upstream.kind = "exception"
    /\ lastCall.upstream.cls = "ConnectTimeout"
    /\ lastCall.outcome = "raised"
    /\ Contains(lastCall.exc.str, TimeoutText)

\* C8: a response with a successful HTTP status and a body that is not JSON
\* makes make_prometheus_request raise the "Invalid JSON response" error.
C8_InvalidJSONClassification ==
    (IsDirectRequest /\ GotResponse /\ lastCall.upstream.status_code < 400
        /\ ~lastCall.upstream.body.json)
    => /\ lastCall.outcome = "raised"
       /\ Contains(lastCall.exc.str, "Invalid JSON response from Prometheus: ")

C10_HealthCheckProbe ==
    (IsToolCall /\ lastCall.name = "health_check" /\ config.url # <<>>)
    => /\ Len(lastCall.requests) = 1
       /\ lastCall.requests[1].url = RStripSlash(config.url) \o <<"/api/v1/", "query">>
       /\ lastCall.requests[1].params.t = "dict"
       /\ lastCall.requests[1].params.d["query"] = "up"
       /\ lastCall.outcome = "returned"
       /\ lastCall.caught = NoException
       /\ lastCall.health_data["status"] =
            (IF UpstreamSucceeded THEN "healthy" ELSE "degraded")
       /\ Contains(lastCall.content[1],
                   IF UpstreamSucceeded THEN "healthy" ELSE "degraded")

C10_Witness ==
    /\ IsToolCall
    /\ lastCall.name = "health_check"
    /\ lastCall.upstream.kind = "exception"
    /\ lastCall.upstream.cls = "ConnectTimeout"
    /\ lastCall.outcome = "returned"
    /\ lastCall.health_data["status"] = "degraded"

\* C11: every health_check result returned to the caller contains the status
\* (healthy, degraded or unhealthy), the service name, the version, a
\* timestamp, the transport mode and the three configuration-presence
\* booleans, and contains none of the token, the password and the org id.
C11_HealthResultContents ==
    (IsToolCall /\ lastCall.name = "health_check")
    => /\ lastCall.outcome = "returned"
       /\ lastCall.health_data["status"] \in {"healthy", "degraded", "unhealthy"}
       /\ SomeBlockContains(lastCall.health_data["status"])
       /\ SomeBlockContains("prometheus-mcp-server")
       /\ SomeBlockContains("1.2.11")
       /\ \A j \in 1..Len(IsoFormat) : SomeBlockContains(IsoFormat[j])
       /\ SomeBlockContains(config.mcp_server_config.mcp_server_transport)
       /\ \E i \in 1..Len(lastCall.content) :
            \E j \in 1..(Len(lastCall.content[i]) - 5) :
                SubSeq(lastCall.content[i], j, j + 5) =
                    <<"Prometheus URL configured: ", BoolStr(config.url # <<>>),
                      "\nAuthentication configured: ",
                      BoolStr(config.username # "" \/ config.token # ""),
                      "\nOrg ID configured: ", BoolStr(config.org_id # "")>>
       /\ config.token # "" => ~SomeBlockContains(config.token)
       /\ config.password # "" => ~SomeBlockContains(config.password)
       /\ config.org_id # "" => ~SomeBlockContains(config.org_id)

\* the last invocation is an execute_query that reaches the upstream
QueryReachesUpstream ==
    /\ IsToolCall
    /\ lastCall.name = "execute_query"
    /\ "query" \in DOMAIN lastCall.arguments.d
    /\ config.url # <<>>

\* C16 as stated: execute_query sends one request to endpoint query whose
\* params hold the given query, and hold the key time, with the given value,
\* if and only if the caller provided a time argument.
C16_AsStated ==
    QueryReachesUpstream
    => /\ Len(lastCall.requests) = 1
       /\ lastCall.requests[1].url = RStripSlash(config.url) \o <<"/api/v1/", "query">>
       /\ lastCall.requests[1].params.d["query"] = lastCall.arguments.d["query"]
       /\ "time" \in DOMAIN lastCall.requests[1].params.d
            <=> "time" \in DOMAIN lastCall.arguments.d
       /\ "time" \in DOMAIN lastCall.requests[1].params.d
            => lastCall.requests[1].params.d["time"] = lastCall.arguments.d["time"]

\* C16 amended: execute_query sends one request to endpoint query whose params
\* hold the given query, and hold the key time, with the given value, if and
\* only if the caller provided a non-empty time argument; no other key is sent.
C16_TimePassedWhenNonEmpty ==
    QueryReachesUpstream
    => /\ Len(lastCall.requests) = 1
       /\ lastCall.requests[1].url = RStripSlash(config.url) \o <<"/api/v1/", "query">>
       /\ lastCall.requests[1].params.d["query"] = lastCall.arguments.d["query"]
       /\ "time" \in DOMAIN lastCall.requests[1].params.d
            <=> ("time" \in DOMAIN lastCall.arguments.d /\ lastCall.arguments.d["time"] # "")
       /\ "time" \in DOMAIN lastCall.requests[1].params.d
            => lastCall.requests[1].params.d["time"] = lastCall.arguments.d["time"]
       /\ DOMAIN lastCall.requests[1].params.d \subseteq {"query", "time"}

C16_Witness ==
    /\ QueryReachesUpstream
    /\ "time" \in DOMAIN lastCall.arguments.d
    /\ lastCall.arguments.d["time"] = "2023-01-01T00:00:00Z"
    /\ Len(lastCall.requests) = 1
    /\ lastCall.requests[1].params.d["time"] = "2023-01-01T00:00:00Z"

\* the arguments a tool's handler subscripts before it calls the upstream
RequiredArguments(name) ==
    CASE name = "execute_query" -> {"query"}
      [] name = "execute_range_query" -> {"query", "start", "end", "step"}
      [] name = "get_metric_metadata" -> {"metric"}
      [] OTHER -> {}

\* C17: a call of execute_query, execute_range_query or get_metric_metadata
\* that lacks a required argument ends in a failure text and issues no HTTP
\* request; an execute_range_query with all four arguments sends exactly them,
\* unchanged, to endpoint query_range.
C17_RequiredArgumentsFirst ==
    (IsToolCall /\ lastCall.name \in DataTools)
    => /\ ~(RequiredArguments(lastCall.name) \subseteq DOMAIN lastCall.arguments.d)
            => /\ lastCall.requests = <<>>
               /\ lastCall.upstream = NoUpstream
               /\ lastCall.outcome = "returned"
               /\ lastCall.caught.cls = "KeyError"
               /\ Len(lastCall.content) = 1
       /\ (lastCall.name = "execute_range_query" /\ config.url # <<>>
             /\ RequiredArguments(lastCall.name) \subseteq DOMAIN lastCall.arguments.d)
            => /\ Len(lastCall.requests) = 1
               /\ lastCall.requests[1].url =
                    RStripSlash(config.url) \o <<"/api/v1/", "query_range">>
               /\ lastCall.requests[1].params = lastCall.arguments

C17_Witness ==
    /\ IsToolCall
    /\ lastCall.name = "execute_range_query"
    /\ DOMAIN lastCall.arguments.d = {"query", "start", "step"}
    /\ config.url # <<>>
    /\ lastCall.outcome = "returned"
    /\ lastCall.caught = KeyError("end")
    /\ httpCount = 0

\* C20: no invocation issues more than one HTTP request, whatever the upstream
\* answers, and every request carries the 30-second timeout.
C20_SingleAttempt ==
    [][ /\ httpCount' - httpCount <= 1
        /\ Len(lastCall'.requests) <= 1
        /\ \A i \in 1..Len(lastCall'.requests) : lastCall'.requests[i].timeout = 30 ]_vars

C20_Witness ==
    /\ IsToolCall
    /\ lastCall.upstream.kind = "exception"
    /\ lastCall.upstream.cls = "ReadTimeout"
    /\ Len(lastCall.requests) = 1
    /\ httpCount = 1

IsStartup == lastCall.op = "startup"

\* C18: constructing config at startup fails whenever the transport read from
\* the environment is not one of stdio, http and sse; no constructed config
\* holds any other transport.
C18_TransportValidated ==
    /\ config # NotLoaded
         => config.mcp_server_config.mcp_server_transport \in TransportType
    /\ (IsStartup
          /\ Lower(environ_get(lastCall.arguments.d.PROMETHEUS_MCP_SERVER_TRANSPORT, "stdio"))
                \notin TransportType)
         => lastCall.outcome = "raised"

\* the last invocation is a Prometheus-dependent tool call made with no URL
CalledWithoutUrl ==
    /\ IsToolCall
    /\ lastCall.name \in DataTools
    /\ config.url = <<>>

\* a startup that raised would have raised with PROMETHEUS_URL set as well
StartupFailureNotFromUrl ==
    (IsStartup /\ lastCall.outcome = "raised")
    => LoadConfig([lastCall.arguments.d EXCEPT
                     !.PROMETHEUS_URL = Set(<<"http://prom:9090", "/">>)]).raised

LimitTools == {"list_metrics", "list_labels", "get_label_values", "get_metric_metadata"}

\* the last invocation called `name` with the upstream configured
CalledWithUrl(name) ==
    /\ IsToolCall
    /\ lastCall.name = name
    /\ config.url # <<>>

\* C12: a call of list_metrics, list_labels, get_label_values or
\* get_metric_metadata sends one request whose params hold no limit key when
\* no limit was given (params None for the first three) and hold the given
\* integer, zero included, when one was; list_metrics goes to endpoint
\* label/__name__/values.
C12_LimitPassedThrough ==
    \A name \in LimitTools :
        CalledWithUrl(name)
        => /\ Len(lastCall.requests) = 1
           /\ IF "limit" \in DOMAIN lastCall.arguments.d
              THEN /\ lastCall.requests[1].params.t = "dict"
                   /\ "limit" \in DOMAIN lastCall.requests[1].params.d
                   /\ lastCall.requests[1].params.d["limit"] = lastCall.arguments.d["limit"]
              ELSE IF name = "get_metric_metadata"
                   THEN DOMAIN lastCall.requests[1].params.d = {"metric"}
                   ELSE lastCall.requests[1].params = PNone
           /\ name = "list_metrics"
                => lastCall.requests[1].url =
                       RStripSlash(config.url) \o <<"/api/v1/", "label/__name__/values">>

\* C13: a find_series call with a non-empty match list sends one request to
\* endpoint series whose params hold match[] equal to the list, in order, and
\* the keys limit, start and end exactly when given, with the given values,
\* and no other key.
C13_FindSeriesRequest ==
    CalledWithUrl("find_series")
    => /\ Len(lastCall.requests) = 1
       /\ lastCall.requests[1].url = RStripSlash(config.url) \o <<"/api/v1/", "series">>
       /\ lastCall.requests[1].params.t = "dict"
       /\ DOMAIN lastCall.requests[1].params.d =
              {"match[]"} \cup (DOMAIN lastCall.arguments.d \cap {"limit", "start", "end"})
       /\ lastCall.requests[1].params.d["match[]"] = lastCall.arguments.d["match"]
       /\ \A k \in DOMAIN lastCall.arguments.d \cap {"limit", "start", "end"} :
              lastCall.requests[1].params.d[k] = lastCall.arguments.d[k]

Validated == lastCall.op = "validate_limit_parameter"

\* C14: validate_limit_parameter returns None for None and returns every
\* integer unchanged, zero and negative values included.
C14_NoneAndIntegersPassThrough ==
    (Validated /\ lastCall.arguments.t \in {"None", "int"})
    => /\ lastCall.outcome = "returned"
       /\ lastCall.data = lastCall.arguments

C14_Witness ==
    /\ Validated
    /\ lastCall.arguments = LimitInt(0 - 1)
    /\ lastCall.outcome = "returned"
    /\ lastCall.data = LimitInt(0 - 1)

RECURSIVE Pow10(_)
Pow10(k) == IF k = 0 THEN 1 ELSE 10 * Pow10(k - 1)

\* the integer a run of digits denotes, as the sum of its place values
RECURSIVE PlaceValueSum(_, _)
PlaceValueSum(ds, i) ==
    IF i > Len(ds) THEN 0
    ELSE DigitValue(ds[i]) * Pow10(Len(ds) - i) + PlaceValueSum(ds, i + 1)

\* s is m surrounded by whitespace only, m having no whitespace at its ends
Surrounded(s, a, b) ==
    /\ a + b <= Len(s)
    /\ \A i \in 1..a : s[i] = " "
    /\ \A i \in (Len(s) - b + 1)..Len(s) : s[i] = " "
    /\ a + b < Len(s) => (s[a + 1] # " " /\ s[Len(s) - b] # " ")

\* m is an optional sign followed by one or more decimal digits
SignedDigits(m) ==
    \E k \in 0..1 :
        /\ Len(m) > k
        /\ k = 1 => m[1] \in {"+", "-"}
        /\ \A i \in (k + 1)..Len(m) : m[i] \in Digits

\* int(m) for such an m
SignedValue(m) ==
    IF m[1] = "-" THEN 0 - PlaceValueSum(Tail(m), 1)
    ELSE IF m[1] = "+" THEN PlaceValueSum(Tail(m), 1)
    ELSE PlaceValueSum(m, 1)

\* C15: for a string s, validate_limit_parameter returns int(s.strip())
\* exactly when s stripped of surrounding whitespace is an optional sign
\* followed by one or more decimal digits; for every other string it fails
\* with an error whose message holds the original, unstripped s between quotes
\* and the words "must be a valid integer".
C15_StringsParsedStrictly ==
    (Validated /\ lastCall.arguments.t = "str")
    => LET s == lastCall.arguments.s IN
       \A a \in 0..Len(s), b \in 0..Len(s) :
           Surrounded(s, a, b)
           => LET m == SubSeq(s, a + 1, Len(s) - b) IN
              IF SignedDigits(m)
              THEN /\ lastCall.outcome = "returned"
                   /\ lastCall.data = LimitInt(SignedValue(m))
              ELSE /\ lastCall.outcome = "raised"
                   /\ lastCall.exc.cls = "ValueError"
                   /\ SubSeq(lastCall.exc.str, 1, Len(s) + 2)
                        = <<"Invalid limit value '">> \o s \o <<"'">>
                   /\ Contains(lastCall.exc.str, "must be a valid integer")

C15_Witness ==
    /\ Validated
    /\ lastCall.arguments = LimitStr(<<" ", "-", "2">>)
    /\ lastCall.outcome = "returned"
    /\ lastCall.data = LimitInt(0 - 2)

\* C24: no step changes config, and what a call_tool invocation returns or
\* raises is what the same name, arguments and upstream answer give under
\* config alone, whatever was called before.
C24_NoSharedStateWritten ==
    [][ /\ config' = config
        /\ lastCall'.op = "call_tool"
             => \A r \in { call_tool(config, lastCall'.name, lastCall'.arguments.d,
                                      IF lastCall'.upstream = NoUpstream
                                      THEN AnyUpstream ELSE lastCall'.upstream) } :
                    /\ lastCall'.outcome = r.outcome
                    /\ lastCall'.content = r.content
                    /\ lastCall'.exc = r.exc
                    /\ lastCall'.requests = r.requests ]_vars

C24_Witness ==
    /\ IsToolCall
    /\ httpCount = 1
    /\ lastCall.requests = <<>>
    /\ lastCall.name = "no_such_tool"
    /\ lastCall.outcome = "raised"
    /\ config.url # <<>>

\* a request carries authentication: basic auth or an Authorization header
CarriesAuthentication(rq) ==
    rq.auth.type # "None" \/ "Authorization" \in DOMAIN rq.headers

\* C25: the authentication_configured flag health_check reports is true
\* exactly when get_prometheus_auth selects a bearer header or basic auth,
\* i.e. exactly when the requests the server sends carry authentication.
C25_AuthFlagAgrees ==
    (IsToolCall /\ lastCall.name = "health_check")
    => /\ lastCall.health_data["configuration"].authentication_configured
            <=> get_prometheus_auth(config).type # "None"
       /\ SomeBlockContains("\nAuthentication configured: ")
       /\ \A i \in 1..Len(lastCall.requests) :
            lastCall.health_data["configuration"].authentication_configured
                <=> CarriesAuthentication(lastCall.requests[i])

\* the texts that open the message of a classified failure
ClassificationPrefixes ==
    {ConfigurationMissing, "Prometheus API error: ", "Prometheus server at ",
     "Cannot connect to Prometheus server at ",
     "Authentication failed. Please check your Prometheus credentials.",
     "Access forbidden. Please check your Prometheus permissions.", "HTTP ",
     "Request failed: ", "Invalid JSON response from Prometheus: ", "Unexpected error: "}

\* C26: the message of every error make_prometheus_request raises carries
\* exactly one classification prefix, and a non-success envelope is never
\* reported as an unexpected error.
C26_ClassifiedOnce ==
    (IsDirectRequest /\ lastCall.outcome = "raised")
    => /\ Cardinality({ i \in 1..Len(lastCall.exc.str) :
                            lastCall.exc.str[i] \in ClassificationPrefixes }) = 1
       /\ (GotNonSuccessEnvelope /\ lastCall.upstream.status_code < 400)
            => ~Contains(lastCall.exc.str, "Unexpected error: ")

\* the names a list_tools result enumerates
Enumerated(call) == { call.data.l[i] : i \in 1..Len(call.data.l) }

\* the invocation was rejected as an unknown tool
RejectedAsUnknown(call) ==
    /\ call.outcome = "raised"
    /\ call.exc.cls = "ValueError"
    /\ call.exc.str = <<"Unknown tool: ", call.name>>
    /\ call.requests = <<>>

\* C22: list_tools enumerates the same six names after any sequence of calls
\* and under every configuration, and a call_tool invocation is rejected as
\* an unknown tool if and only if list_tools does not enumerate its name.
C22_RegistryMatchesDispatch ==
    [][ /\ lastCall'.op = "list_tools"
             => /\ Enumerated(lastCall') =
                       {"health_check", "execute_query", "execute_range_query",
                        "list_metrics", "get_metric_metadata", "get_targets"}
                /\ lastCall.op = "list_tools" => lastCall'.data = lastCall.data
        /\ (lastCall.op = "list_tools" /\ lastCall'.op = "call_tool")
             => (RejectedAsUnknown(lastCall') <=> lastCall'.name \notin Enumerated(lastCall))
        /\ lastCall'.op = "call_tool"
             => (RejectedAsUnknown(lastCall')
                   <=> lastCall'.name \notin { list_tools[i] : i \in 1..Len(list_tools) }) ]_vars

C22_Witness ==
    /\ lastCall.op = "list_tools"
    /\ httpCount = 1
    /\ Len(lastCall.data.l) = 6

\* C21: while an invocation waits for the upstream, the event loop can take
\* and complete another call_tool invocation: one that needs no upstream
\* request (an execute_query without its query, an unknown tool) is not held
\* back by the request in flight.
C21_LoopFreeWhileWaiting ==
    Waiting => (ENABLED BeginExecuteQuery /\ ENABLED BeginUnknownTool)

\* C23: whatever log calls fail, the caller of make_prometheus_request
\* observes the outcome of the request itself: with a URL configured one
\* request is issued and the data returned, or the error raised, is the one
\* the upstream's answer gives; without a URL the configuration error is
\* raised. No outcome is an error caused by logging.
C23_LoggingNeverMasks ==
    IsDirectRequest
    => /\ lastCall.exc # LogError
       /\ ~Contains(lastCall.exc.str, LogError.str[1])
       /\ IF config.url = <<>>
          THEN lastCall.exc = ValueError(<<ConfigurationMissing>>)
          ELSE /\ Len(lastCall.requests) = 1
               /\ LET r == make_prometheus_request(config, lastCall.name,
                                                   lastCall.arguments, lastCall.upstream)
                  IN  /\ (lastCall.outcome = "raised") = r.raised
                      /\ lastCall.exc = r.exc
                      /\ lastCall.data = r.data

====
